---- MODULE Spec2Model ----
(***************************************************************************)
(* Model of install.py, the provisioning script of Smart Shower OS.        *)
(*                                                                         *)
(* main() calls a fixed sequence of stage functions.  Every stage returns  *)
(* True or False (or raises); main() exits with status 1 after a False.    *)
(* The host (runtime version, effective user id, /bin/sh, filesystem) and  *)
(* the exit status of every child process are the inputs.                  *)
(***************************************************************************)
EXTENDS Integers, Sequences, FiniteSets, TLC

VARIABLES
    host,       \* read-only facts about the machine (sys.version_info, os.geteuid(), /bin/sh, ...)
    fs,         \* filesystem: path -> [kind, mode, content], defined on the existing paths
    pc,         \* position of main(): "main", the stage about to be called, or "exit"
    exitCode,   \* process exit status, Running while main() has not ended
    raised,     \* exception that ended the process unhandled, "none" otherwise
    out,        \* lines printed by this run, in order
    cmds,       \* commands given to subprocess.run by this run, in order
    executed,   \* stage functions called by this run, in order
    results,    \* what each called stage did: "True", "False" or "raised"
    fsBefore,   \* filesystem when the stage called last was entered
    fsStart,    \* filesystem when this run started
    faulted,    \* external operations the host made fail in this run
    budget,     \* host failures still allowed (bounds the model)
    history     \* summaries of the earlier runs on this host

vars == <<host, fs, pc, exitCode, raised, out, cmds, executed, results,
          fsBefore, fsStart, faulted, budget, history>>

-----------------------------------------------------------------------------
(* Bounds *)

MaxRuns == 2
MaxFaults == 2

Running == -1

-----------------------------------------------------------------------------
(* Paths and literals of the script *)

venv_path == "venv"
venv_bin == "venv/bin"
venv_activate == "venv/bin/activate"
requirements_txt == "requirements.txt"
main_py == "main.py"
logs_dir == "logs"
settings_file == "config/settings.yaml"
credentials_file == "config/credentials.yaml"
home_config == "~/.config"
pulse_dir == "~/.config/pulse"
pulse_config_path == "~/.config/pulse/default.pa"
systemd_dir == "/etc/systemd/system"
service_file == "/etc/systemd/system/smart-shower.service"

packages == <<"python3-pip", "python3-venv", "ffmpeg", "mpv", "bluetooth", "bluez",
              "pulseaudio", "pulseaudio-module-bluetooth", "git", "curl", "wget">>

directories == <<"logs", "config", "music", "web/static", "web/templates", "data">>

pulse_config == <<"", "load-module module-bluetooth-discover",
                  "load-module module-bluetooth-policy">>

service_content == <<"[Unit]", "Description=Smart Shower OS",
                     "After=network.target bluetooth.service",
                     "[Service]", "Type=simple", "User=pi",
                     "WorkingDirectory={cwd}", "Environment=PATH={cwd}/venv/bin",
                     "ExecStart={cwd}/venv/bin/python {cwd}/main.py",
                     "Restart=always", "RestartSec=10",
                     "[Install]", "WantedBy=multi-user.target">>

MinVersion == <<3, 8>>
ExecMode == 493        \* 0o755
DefaultDirMode == 493  \* 0o777 & ~0o022
DefaultFileMode == 420 \* 0o666 & ~0o022

-----------------------------------------------------------------------------
(* Filesystem *)

Dir == [kind |-> "dir", mode |-> DefaultDirMode, content |-> <<>>]
File(content) == [kind |-> "file", mode |-> DefaultFileMode, content |-> content]

Exists(f, p) == p \in DOMAIN f
IsDir(f, p) == Exists(f, p) /\ f[p].kind = "dir"

\* f extended or overwritten at path p
Put(f, p, e) == [q \in DOMAIN f \cup {p} |-> IF q = p THEN e ELSE f[q]]

\* the parents Path(p).mkdir(parents=True) has to create
Parents(p) ==
    CASE p = "web/static" -> <<"web">>
      [] p = "web/templates" -> <<"web">>
      [] p = pulse_dir -> <<home_config>>
      [] OTHER -> <<>>

\* Path.mkdir(parents=True, exist_ok=True): "ok" with the new filesystem, or
\* FileExistsError when the path or a parent exists and is not a directory
RECURSIVE MkdirAll(_, _)
MkdirAll(f, ps) ==
    IF ps = <<>> THEN [err |-> "none", fs |-> f]
    ELSE LET p == Head(ps) IN
         IF IsDir(f, p) THEN MkdirAll(f, Tail(ps))
         ELSE IF Exists(f, p) THEN [err |-> "FileExistsError", fs |-> f]
         ELSE MkdirAll(Put(f, p, Dir), Tail(ps))

\* mutant: mkdir without exist_ok=True
Mkdir_exist_not_ok(f, p) ==
    IF Exists(f, p) THEN [err |-> "FileExistsError", fs |-> f]
    ELSE MkdirAll(f, Parents(p) \o <<p>>)

Mkdir(f, p) == MkdirAll(f, Parents(p) \o <<p>>)

\* mutant: the file is opened with "a", the text is added at its end
WriteFile_appends(f, p, content) ==
    IF Exists(f, p) THEN Put(f, p, [f[p] EXCEPT !.content = @ \o content])
    ELSE Put(f, p, [kind |-> "file", mode |-> DefaultFileMode, content |-> content])

\* open(p, "w") then write: creates or truncates the file, keeps the mode of an
\* existing file
WriteFile(f, p, content) ==
    IF Exists(f, p) THEN Put(f, p, [f[p] EXCEPT !.content = content])
    ELSE Put(f, p, File(content))

Chmod(f, p, m) == Put(f, p, [f[p] EXCEPT !.mode = m])

-----------------------------------------------------------------------------
(* Host *)

\* mutant: <= in the place of <
VersionLess_or_equal(v, w) == v[1] < w[1] \/ (v[1] = w[1] /\ v[2] <= w[2])

\* sys.version_info < (3, 8): tuples compare lexicographically
VersionLess(v, w) == v[1] < w[1] \/ (v[1] = w[1] /\ v[2] < w[2])

Versions == {<<3, 7>>, <<3, 8>>, <<3, 11>>}

Hosts == [version : Versions,
          euid : {0, 1000},
          sh : {"bash", "dash"},             \* what /bin/sh is (subprocess shell=True)
          modules : {"loadable", "broken"}]  \* can the application modules be imported

Checkout == (requirements_txt :> File(<<"deps">>)) @@ (main_py :> File(<<"app">>))

WorkingDirs ==
    { Checkout,
      (main_py :> File(<<"app">>)),
      Checkout @@ ("config" :> Dir) @@ (settings_file :> File(<<"settings">>))
               @@ (credentials_file :> File(<<"credentials">>))
               @@ ("logs" :> Dir) @@ ("notes.txt" :> File(<<"notes">>)),
      (requirements_txt :> File(<<"deps">>)) @@ ("data" :> File(<<"blob">>)),
      (requirements_txt :> File(<<"deps">>)) }

SystemDirs ==
    { (systemd_dir :> Dir),
      (systemd_dir :> Dir) @@ (home_config :> Dir) @@ (pulse_dir :> Dir)
          @@ (pulse_config_path :> File(<<"load-module module-native-protocol-unix">>)),
      ("/etc" :> Dir) }

-----------------------------------------------------------------------------
(* Output lines *)

Line(stage, kind) == [stage |-> stage, kind |-> kind]

-----------------------------------------------------------------------------
(* The shell: how /bin/sh -c splits a command line into words.  A command   *)
(* line is a sequence of tokens; DQ is a double quote, SP and NL are white  *)
(* space, every other token is text without quotes or white space.          *)

DQ == "\""
SP == " "
NL == "\n"

\* the i-th token stands inside double quotes: an odd number of quotes precede it
Quoted(toks, i) == Cardinality({j \in 1..(i - 1) : toks[j] = DQ}) % 2 = 1

\* the positions where the shell splits: white space outside quotes
Separators(toks) == {i \in 1..Len(toks) : toks[i] \in {SP, NL} /\ ~Quoted(toks, i)}

\* the positions where a word starts
WordStarts(toks, seps) ==
    {i \in 1..Len(toks) : i \notin seps /\ (i = 1 \/ (i - 1) \in seps)}

\* the word that starts at position s: up to the next separator, quotes removed
WordAt(toks, seps, s) ==
    LET ends == {e \in s..Len(toks) : e = Len(toks) \/ (e + 1) \in seps}
        e == CHOOSE x \in ends : \A y \in ends : x <= y
        NotQuote(t) == t # DQ
    IN SelectSeq(SubSeq(toks, s, e), NotQuote)

\* words of a command line: double quotes group, unquoted white space splits
ShellWords(toks) ==
    LET seps == Separators(toks)
        starts == WordStarts(toks, seps)
    IN [k \in 1..Cardinality(starts) |->
           WordAt(toks, seps, CHOOSE s \in starts : Cardinality({x \in starts : x < s}) = k - 1)]

Count(toks, n, t) == Cardinality({i \in 1..n : toks[i] = t})

\* the script handed to python -c compiles only if its parentheses balance
PythonParses(script) ==
    /\ Count(script, Len(script), "(") = Count(script, Len(script), ")")
    /\ \A n \in 1..Len(script) : Count(script, n, "(") >= Count(script, n, ")")

test_script ==
    <<NL, "import", SP, "sys", NL,
      "sys.path.append", "(", "'.'", ")", NL, NL,
      "try:", NL,
      SP, "from", SP, "utils.config_manager", SP, "import", SP, "ConfigManager", NL,
      SP, "from", SP, "core.water_control", SP, "import", SP, "WaterController", NL,
      SP, "from", SP, "core.audio_manager", SP, "import", SP, "AudioManager", NL,
      SP, "from", SP, "core.safety_monitor", SP, "import", SP, "SafetyMonitor", NL,
      SP, "print", "(", DQ, "[ok]", SP, "All", SP, "core", SP, "modules", SP,
          "imported", SP, "successfully", DQ, ")", NL,
      "except", SP, "ImportError", SP, "as", SP, "e:", NL,
      SP, "print", "(", "f", DQ, "[x]", SP, "Import", SP, "error:", SP, "{e}", DQ, ")", NL,
      SP, "sys.exit", "(", "1", ")", NL>>

\* f"source venv/bin/activate && python -c \"{test_script}\""
test_command ==
    <<"source", SP, venv_activate, SP, "&&", SP, "python", SP, "-c", SP, DQ>>
    \o test_script \o <<DQ>>

\* "source venv/bin/activate": dash has no source builtin
SourceStatus(f, h) ==
    IF h.sh = "dash" THEN 127
    ELSE IF Exists(f, venv_activate) THEN 0 ELSE 1

\* python -c <script> [args]: the script is the one word after -c
PythonStatus(words, h) ==
    IF Len(words) < 3 \/ words[2] # <<"-c">> THEN 2
    ELSE IF ~PythonParses(words[3]) THEN 1      \* SyntaxError
    ELSE IF h.modules # "loadable" THEN 1       \* ImportError -> sys.exit(1)
    ELSE 0

\* the words /bin/sh makes of the command line of run_tests
test_words == ShellWords(test_command)

\* exit status of "source venv/bin/activate && python -c ..."
TestStatus(f, h) ==
    IF SourceStatus(f, h) # 0 THEN SourceStatus(f, h)
    ELSE PythonStatus(SubSeq(test_words, 4, Len(test_words)), h)

-----------------------------------------------------------------------------
(* run_command and the stage functions.  A stage function is an operator    *)
(* giving what one call does: ret (the value returned), raised (the         *)
(* exception that leaves it, "none" if it returns), the lines it prints,    *)
(* the commands it runs and the filesystem it leaves.                       *)

\* run_command(command, description): True exactly when the child exits 0
run_command(stage, command, status) ==
    [ok |-> status = 0,
     lines |-> IF status = 0
               THEN <<Line(stage, "start"), Line(stage, "ok")>>
               ELSE <<Line(stage, "start"), Line(stage, "fail"), Line(stage, "detail")>>]

\* the element of a one-element set: binds a result that is used more than once
TheOne(S) == CHOOSE x \in S : TRUE

\* "if not run_command(...): return False" over a list of commands: they are
\* run in order up to the first one that fails
RunUntilFailure(stage, commands, statuses) ==
    LET failing == {i \in 1..Len(commands) :
                       ~run_command(stage, commands[i], statuses[i]).ok}
        last == IF failing = {} THEN Len(commands)
                ELSE CHOOSE i \in failing : \A j \in failing : i <= j
        printed[i \in 0..last] ==
            IF i = 0 THEN <<>>
            ELSE printed[i - 1] \o run_command(stage, commands[i], statuses[i]).lines
    IN [ret |-> failing = {}, lines |-> printed[last], cmds |-> SubSeq(commands, 1, last)]

Returned(stage, ret, lines, commands, f) ==
    [ret |-> ret, raised |-> "none", lines |-> <<Line(stage, "header")>> \o lines,
     cmds |-> commands, fs |-> f]

Raised(stage, exc, lines, f) ==
    [ret |-> FALSE, raised |-> exc, lines |-> <<Line(stage, "header")>> \o lines,
     cmds |-> <<>>, fs |-> f]

\* the host makes the failAt-th command of a stage fail (0: none)
Statuses(n, failAt) == [i \in 1..n |-> IF i = failAt THEN 1 ELSE 0]

check_python_version(f, h) ==
    IF VersionLess(h.version, MinVersion)
    THEN Returned("check_python_version", FALSE,
                  <<Line("check_python_version", "fail")>>, <<>>, f)
    ELSE Returned("check_python_version", TRUE,
                  <<Line("check_python_version", "ok")>>, <<>>, f)

apt_commands ==
    <<<<"sudo apt update">>>> \o [i \in 1..Len(packages) |-> <<"sudo apt install -y", packages[i]>>]

\* every command is run, whatever the ones before it returned
RECURSIVE RunAll(_, _, _)
RunAll(stage, commands, statuses) ==
    IF commands = <<>> THEN [ret |-> TRUE, lines |-> <<>>, cmds |-> <<>>]
    ELSE LET r == run_command(stage, Head(commands), Head(statuses))
             rest == RunAll(stage, Tail(commands), Tail(statuses))
         IN [ret |-> r.ok /\ rest.ret, lines |-> r.lines \o rest.lines,
             cmds |-> <<Head(commands)>> \o rest.cmds]

\* mutant: the loop over the packages does not return at the first failure
install_system_dependencies_goes_on(f, failAt) ==
    LET r == RunAll("install_system_dependencies", apt_commands,
                    Statuses(Len(apt_commands), failAt))
    IN Returned("install_system_dependencies", r.ret, r.lines, r.cmds, f)

\* the run of the apt commands for each command the host can make fail
apt_runs ==
    [failAt \in 0..Len(apt_commands) |->
        RunUntilFailure("install_system_dependencies", apt_commands,
                        Statuses(Len(apt_commands), failAt))]

install_system_dependencies(f, failAt) ==
    LET r == apt_runs[failAt]
    IN Returned("install_system_dependencies", r.ret, r.lines, r.cmds, f)

venv_command == <<"python3 -m venv venv">>

\* mutant: a failed creation removes what it had made, with everything that
\* was in the working directory
VenvLeft_cleans_up(f, outcome) ==
    IF outcome = "ok"
    THEN Put(Put(Put(f, venv_path, Dir), venv_bin, Dir), venv_activate, File(<<"activate">>))
    ELSE [q \in {x \in DOMAIN f : x \in {systemd_dir, "/etc", home_config, pulse_dir,
                                          pulse_config_path, service_file}} |-> f[q]]

\* what "python3 -m venv venv" leaves: a usable environment when it exits 0, and
\* when it fails either nothing or the directory without its scripts
VenvLeft(f, outcome) ==
    CASE outcome = "ok" -> Put(Put(Put(f, venv_path, Dir), venv_bin, Dir),
                               venv_activate, File(<<"activate">>))
      [] outcome = "partial" -> Put(f, venv_path, Dir)
      [] OTHER -> f

\* mutant: the environment is created without looking whether it exists
create_virtual_environment_always_creates(f, outcome) ==
    LET r == run_command("create_virtual_environment", venv_command,
                         IF outcome = "ok" THEN 0 ELSE 1)
    IN Returned("create_virtual_environment", r.ok, r.lines, <<venv_command>>,
                VenvLeft(f, outcome))

create_virtual_environment(f, outcome) ==
    IF Exists(f, venv_path)
    THEN Returned("create_virtual_environment", TRUE,
                  <<Line("create_virtual_environment", "ok")>>, <<>>, f)
    ELSE LET r == run_command("create_virtual_environment", venv_command,
                              IF outcome = "ok" THEN 0 ELSE 1)
         IN Returned("create_virtual_environment", r.ok, r.lines, <<venv_command>>,
                     VenvLeft(f, outcome))

pip_upgrade == <<"source venv/bin/activate && pip install --upgrade pip">>
pip_requirements == <<"source venv/bin/activate && pip install -r requirements.txt">>

\* exit status of "source venv/bin/activate && pip install ...": pip -r fails
\* when the manifest is missing
PipStatus(f, h, command, hostFails) ==
    IF SourceStatus(f, h) # 0 THEN SourceStatus(f, h)
    ELSE IF hostFails THEN 1
    ELSE IF command = pip_requirements /\ ~Exists(f, requirements_txt) THEN 1
    ELSE 0

\* mutant: the requirements are installed although the upgrade of pip failed
install_python_dependencies_goes_on(f, h, failAt) ==
    LET r == RunAll("install_python_dependencies",
                    <<pip_upgrade, pip_requirements>>,
                    <<PipStatus(f, h, pip_upgrade, failAt = 1),
                      PipStatus(f, h, pip_requirements, failAt = 2)>>)
    IN Returned("install_python_dependencies", r.ret, r.lines, r.cmds, f)

install_python_dependencies(f, h, failAt) ==
    LET r == RunUntilFailure("install_python_dependencies",
                             <<pip_upgrade, pip_requirements>>,
                             <<PipStatus(f, h, pip_upgrade, failAt = 1),
                               PipStatus(f, h, pip_requirements, failAt = 2)>>)
    IN Returned("install_python_dependencies", r.ret, r.lines, r.cmds, f)

\* the loop of create_directories from the i-th directory on; the host rejects
\* the failAt-th mkdir (0: none)
RECURSIVE MakeDirectories(_, _, _, _)
MakeDirectories(f, i, failAt, lines) ==
    IF i > Len(directories) THEN Returned("create_directories", TRUE, lines, <<>>, f)
    ELSE IF i = failAt THEN Raised("create_directories", "PermissionError", lines, f)
    ELSE TheOne({IF m.err # "none"
                 THEN Raised("create_directories", m.err, lines, m.fs)
                 ELSE MakeDirectories(m.fs, i + 1, failAt,
                                      Append(lines, Line("create_directories", "ok"))) :
                 m \in {Mkdir(f, directories[i])}})

create_directories(f, failAt) == MakeDirectories(f, 1, failAt, <<>>)

\* mutant: the missing configuration files are written
setup_configuration_writes_defaults(f) ==
    LET f1 == IF Exists(f, settings_file) THEN f
              ELSE WriteFile(f, settings_file, <<"defaults">>)
        f2 == IF Exists(f1, credentials_file) THEN f1
              ELSE WriteFile(f1, credentials_file, <<"defaults">>)
    IN Returned("setup_configuration", TRUE, <<Line("setup_configuration", "ok")>>, <<>>, f2)

setup_configuration(f) ==
    Returned("setup_configuration", TRUE,
             (IF Exists(f, settings_file) THEN <<>>
              ELSE <<Line("setup_configuration", "info")>>)
             \o (IF Exists(f, credentials_file) THEN <<>>
                 ELSE <<Line("setup_configuration", "info")>>),
             <<>>, f)

bluetooth_commands == <<<<"sudo systemctl enable bluetooth">>, <<"sudo systemctl start bluetooth">>>>

setup_bluetooth(f, failAt) ==
    LET r == RunUntilFailure("setup_bluetooth", bluetooth_commands,
                             Statuses(Len(bluetooth_commands), failAt))
    IN Returned("setup_bluetooth", r.ret, r.lines, r.cmds, f)

setup_audio(f, hostFails) ==
    LET m == Mkdir(f, pulse_dir) IN
    IF m.err # "none" THEN Raised("setup_audio", m.err, <<>>, m.fs)
    ELSE IF hostFails THEN Raised("setup_audio", "PermissionError", <<>>, m.fs)
    ELSE Returned("setup_audio", TRUE, <<Line("setup_audio", "ok")>>, <<>>,
                  WriteFile(m.fs, pulse_config_path, pulse_config))

\* open(service_file, "w"): FileNotFoundError without the directory,
\* PermissionError (the one exception caught) unless root, OSError when the host
\* rejects the write for another reason
create_service_file(f, h, hostFails) ==
    IF ~IsDir(f, systemd_dir) THEN Raised("create_service_file", "FileNotFoundError", <<>>, f)
    ELSE IF h.euid # 0
         THEN Returned("create_service_file", FALSE,
                       <<Line("create_service_file", "warn")>>, <<>>, f)
    ELSE IF hostFails THEN Raised("create_service_file", "OSError", <<>>, f)
    ELSE Returned("create_service_file", TRUE, <<Line("create_service_file", "ok")>>, <<>>,
                  WriteFile(f, service_file, service_content))

\* mutant: a missing main.py is reported as a failure
setup_permissions_needs_main(f, hostFails) ==
    IF ~Exists(f, main_py)
    THEN Returned("setup_permissions", FALSE, <<Line("setup_permissions", "fail")>>, <<>>, f)
    ELSE IF hostFails THEN Raised("setup_permissions", "PermissionError", <<>>, f)
    ELSE Returned("setup_permissions", TRUE, <<Line("setup_permissions", "ok")>>, <<>>,
                  Chmod(f, main_py, ExecMode))

setup_permissions(f, hostFails) ==
    LET f1 == IF Exists(f, main_py) THEN Chmod(f, main_py, ExecMode) ELSE f
        l1 == IF Exists(f, main_py) THEN <<Line("setup_permissions", "ok")>> ELSE <<>>
        f2 == IF Exists(f1, logs_dir) THEN Chmod(f1, logs_dir, ExecMode) ELSE f1
        l2 == IF Exists(f1, logs_dir) THEN <<Line("setup_permissions", "ok")>> ELSE <<>>
    IN IF Exists(f, main_py) /\ hostFails
       THEN Raised("setup_permissions", "PermissionError", <<>>, f)
       ELSE Returned("setup_permissions", TRUE, l1 \o l2, <<>>, f2)

\* mutant: run_tests does not look at what run_command returns
run_tests_ignores_status(f, h, hostFails) ==
    LET r == run_command("run_tests", <<"source venv/bin/activate && python -c test_script">>,
                         IF hostFails /\ TestStatus(f, h) = 0 THEN 1 ELSE TestStatus(f, h))
    IN Returned("run_tests", TRUE, r.lines,
                <<<<"source venv/bin/activate && python -c test_script">>>>, f)

run_tests(f, h, hostFails) ==
    LET r == run_command("run_tests", <<"source venv/bin/activate && python -c test_script">>,
                         IF hostFails /\ TestStatus(f, h) = 0 THEN 1 ELSE TestStatus(f, h))
    IN Returned("run_tests", r.ok, r.lines,
                <<<<"source venv/bin/activate && python -c test_script">>>>, f)

print_next_steps == [i \in 1..11 |-> Line("print_next_steps", "summary")]

-----------------------------------------------------------------------------
(* main() *)

StageOrder ==
    <<"check_python_version", "install_system_dependencies", "create_virtual_environment",
      "install_python_dependencies", "create_directories", "setup_configuration",
      "setup_bluetooth", "setup_audio", "create_service_file", "setup_permissions",
      "run_tests", "print_next_steps">>

Stages == {StageOrder[i] : i \in 1..Len(StageOrder)}

Index(stage) == CHOOSE i \in 1..Len(StageOrder) : StageOrder[i] = stage

\* main() checks the value every stage returns, except create_service_file's
Required(stage) == stage # "create_service_file"

\* the "Failed to ..." line main() prints before sys.exit(1); none after
\* check_python_version
FailureReport(stage) ==
    IF stage = "check_python_version" THEN <<>> ELSE <<Line(stage, "abort")>>

\* main() going on to the stage that follows
Proceed(stage) ==
    IF stage = "run_tests"
    THEN [pc |-> "exit", exitCode |-> 0, lines |-> print_next_steps,
          also |-> <<"print_next_steps">>]
    ELSE [pc |-> StageOrder[Index(stage) + 1], exitCode |-> Running, lines |-> <<>>,
          also |-> <<>>]

\* mutant: a sys.exit(1) is missing, main() reports the failure and goes on
MainAfter_continues(stage, r) ==
    IF r.raised # "none"
    THEN [pc |-> "exit", exitCode |-> 1, lines |-> <<Line(stage, "traceback")>>, also |-> <<>>]
    ELSE IF ~r.ret /\ Required(stage)
    THEN [Proceed(stage) EXCEPT !.lines = FailureReport(stage) \o @]
    ELSE Proceed(stage)

\* mutant: sys.exit() without the status after a failure
MainAfter_exit_zero(stage, r) ==
    IF r.raised # "none"
    THEN [pc |-> "exit", exitCode |-> 1, lines |-> <<Line(stage, "traceback")>>, also |-> <<>>]
    ELSE IF ~r.ret /\ Required(stage)
    THEN [pc |-> "exit", exitCode |-> 0, lines |-> FailureReport(stage), also |-> <<>>]
    ELSE Proceed(stage)

\* mutant: the summary is printed before the exit after a failure
MainAfter_summary_first(stage, r) ==
    IF r.raised # "none"
    THEN [pc |-> "exit", exitCode |-> 1, lines |-> <<Line(stage, "traceback")>>, also |-> <<>>]
    ELSE IF ~r.ret /\ Required(stage)
    THEN [pc |-> "exit", exitCode |-> 1, lines |-> FailureReport(stage) \o print_next_steps,
          also |-> <<"print_next_steps">>]
    ELSE Proceed(stage)

\* mutant: main() calls a stage again after it failed
MainAfter_retries(stage, r) ==
    IF r.raised # "none"
    THEN [pc |-> "exit", exitCode |-> 1, lines |-> <<Line(stage, "traceback")>>, also |-> <<>>]
    ELSE IF ~r.ret /\ Required(stage)
    THEN [pc |-> stage, exitCode |-> Running, lines |-> FailureReport(stage), also |-> <<>>]
    ELSE Proceed(stage)

\* mutant: after a failure main() waits for a key that is never pressed
MainAfter_waits(stage, r) ==
    IF r.raised # "none"
    THEN [pc |-> "exit", exitCode |-> 1, lines |-> <<Line(stage, "traceback")>>, also |-> <<>>]
    ELSE IF ~r.ret /\ Required(stage)
    THEN [pc |-> "wait", exitCode |-> Running, lines |-> FailureReport(stage), also |-> <<>>]
    ELSE Proceed(stage)

\* what main() does with the outcome r of a stage: where it goes next, the exit
\* status, what is printed, which further function runs
MainAfter(stage, r) ==
    IF r.raised # "none"
    THEN [pc |-> "exit", exitCode |-> 1, lines |-> <<Line(stage, "traceback")>>, also |-> <<>>]
    ELSE IF ~r.ret /\ Required(stage)
    THEN [pc |-> "exit", exitCode |-> 1, lines |-> FailureReport(stage), also |-> <<>>]
    ELSE Proceed(stage)

Outcome(r) == IF r.raised # "none" THEN "raised" ELSE IF r.ret THEN "True" ELSE "False"

\* one call of a stage from main(), with main()'s reaction to what it returns;
\* faults are the operations the host made fail during the call
Call(stage, result, faults) ==
    /\ pc = stage
    /\ budget >= Cardinality(faults)
    /\ \E r \in {result} : \E m \in {MainAfter(stage, r)} :
        /\ pc' = m.pc
        /\ exitCode' = m.exitCode
        /\ raised' = r.raised
        /\ out' = out \o r.lines \o m.lines
        /\ cmds' = cmds \o r.cmds
        /\ executed' = Append(executed, stage) \o m.also
        /\ results' = [s \in DOMAIN results \cup {stage} |->
                           IF s = stage THEN Outcome(r) ELSE results[s]]
        /\ fsBefore' = fs
        /\ fs' = r.fs
    /\ faulted' = faulted \cup faults
    /\ budget' = budget - Cardinality(faults)
    /\ UNCHANGED <<host, fsStart, history>>

\* the commands and writes the host may make fail
AptFailures == 0..Len(apt_commands)
MkdirFailures == 0..Len(directories)

Fault(label, happens) == IF happens THEN {label} ELSE {}

\* lines 268-273: the banner and the warning when running as root
MainStart ==
    /\ pc = "main"
    /\ pc' = StageOrder[1]
    /\ out' = out \o <<Line("main", "banner"), Line("main", "banner")>>
                  \o (IF host.euid = 0 THEN <<Line("main", "warn")>> ELSE <<>>)
    /\ UNCHANGED <<host, fs, exitCode, raised, cmds, executed, results, fsBefore,
                   fsStart, faulted, budget, history>>

Call_check_python_version ==
    /\ pc = "check_python_version"
    /\ Call("check_python_version", check_python_version(fs, host), {})

Call_install_system_dependencies ==
    /\ pc = "install_system_dependencies"
    /\ \E failAt \in AptFailures :
        Call("install_system_dependencies", install_system_dependencies(fs, failAt),
             Fault("apt", failAt # 0))

Call_create_virtual_environment ==
    /\ pc = "create_virtual_environment"
    /\ \E outcome \in (IF Exists(fs, venv_path) THEN {"ok"} ELSE {"ok", "fail", "partial"}) :
        Call("create_virtual_environment", create_virtual_environment(fs, outcome),
             Fault("venv", outcome # "ok"))

Call_install_python_dependencies ==
    /\ pc = "install_python_dependencies"
    /\ \E failAt \in (IF SourceStatus(fs, host) = 0 THEN 0..2 ELSE {0}) :
        Call("install_python_dependencies", install_python_dependencies(fs, host, failAt),
             Fault("pip", failAt # 0))

Call_create_directories ==
    /\ pc = "create_directories"
    /\ \E failAt \in MkdirFailures :
        Call("create_directories", create_directories(fs, failAt), Fault("mkdir", failAt # 0))

Call_setup_configuration ==
    /\ pc = "setup_configuration"
    /\ Call("setup_configuration", setup_configuration(fs), {})

Call_setup_bluetooth ==
    /\ pc = "setup_bluetooth"
    /\ \E failAt \in 0..Len(bluetooth_commands) :
        Call("setup_bluetooth", setup_bluetooth(fs, failAt), Fault("systemctl", failAt # 0))

Call_setup_audio ==
    /\ pc = "setup_audio"
    /\ \E hostFails \in BOOLEAN :
        Call("setup_audio", setup_audio(fs, hostFails), Fault("pulse_write", hostFails))

Call_create_service_file ==
    /\ pc = "create_service_file"
    /\ \E hostFails \in (IF IsDir(fs, systemd_dir) /\ host.euid = 0 THEN BOOLEAN ELSE {FALSE}) :
        Call("create_service_file", create_service_file(fs, host, hostFails),
             Fault("service_write", hostFails))

Call_setup_permissions ==
    /\ pc = "setup_permissions"
    /\ \E hostFails \in (IF Exists(fs, main_py) THEN BOOLEAN ELSE {FALSE}) :
        Call("setup_permissions", setup_permissions(fs, hostFails), Fault("chmod", hostFails))

Call_run_tests ==
    /\ pc = "run_tests"
    /\ \E hostFails \in (IF TestStatus(fs, host) = 0 THEN BOOLEAN ELSE {FALSE}) :
        Call("run_tests", run_tests(fs, host, hostFails), Fault("python", hostFails))

\* the operator starts the script again on the same host (lines 331-332)
Rerun ==
    /\ pc = "exit"
    /\ Len(history) + 1 < MaxRuns
    /\ history' = Append(history, [exitCode |-> exitCode, raised |-> raised,
                                   last |-> executed[Len(executed)],
                                   faulted |-> faulted, fsStart |-> fsStart])
    /\ pc' = "main"
    /\ exitCode' = Running
    /\ raised' = "none"
    /\ out' = <<>>
    /\ cmds' = <<>>
    /\ executed' = <<>>
    /\ results' = <<>>
    /\ fsBefore' = fs
    /\ fsStart' = fs
    /\ faulted' = {}
    /\ UNCHANGED <<host, fs, budget>>

Init ==
    /\ host \in Hosts
    /\ \E w \in WorkingDirs, s \in SystemDirs : fs = w @@ s
    /\ pc = "main"
    /\ exitCode = Running
    /\ raised = "none"
    /\ out = <<>>
    /\ cmds = <<>>
    /\ executed = <<>>
    /\ results = <<>>
    /\ fsBefore = fs
    /\ fsStart = fs
    /\ faulted = {}
    /\ budget = MaxFaults
    /\ history = <<>>

Next ==
    \/ MainStart
    \/ Call_check_python_version
    \/ Call_install_system_dependencies
    \/ Call_create_virtual_environment
    \/ Call_install_python_dependencies
    \/ Call_create_directories
    \/ Call_setup_configuration
    \/ Call_setup_bluetooth
    \/ Call_setup_audio
    \/ Call_create_service_file
    \/ Call_setup_permissions
    \/ Call_run_tests
    \/ Rerun

Spec == Init /\ [][Next]_vars

\* one step of a running script: the interpreter goes on and every child
\* process returns, so a step that can be taken is taken
Step ==
    \/ MainStart
    \/ Call_check_python_version
    \/ Call_install_system_dependencies
    \/ Call_create_virtual_environment
    \/ Call_install_python_dependencies
    \/ Call_create_directories
    \/ Call_setup_configuration
    \/ Call_setup_bluetooth
    \/ Call_setup_audio
    \/ Call_create_service_file
    \/ Call_setup_permissions
    \/ Call_run_tests

FairSpec == Spec /\ WF_vars(Step)

-----------------------------------------------------------------------------
(* Vocabulary of the properties *)

\* the stages whose failure the design calls fatal: all but the Service
\* Registrar (and the Reporter, which cannot fail)
RequiredStages == Stages \ {"create_service_file", "print_next_steps"}

Called(stage) == stage \in DOMAIN results
Succeeded(stage) == Called(stage) /\ results[stage] = "True"
Failed(stage) == Called(stage) /\ results[stage] # "True"

Terminated == pc = "exit"
SummaryPrinted == \E i \in 1..Len(out) : out[i].kind = "summary"
LastLine == out[Len(out)]

\* a host on which nothing stands in the way of the installation: a runtime new
\* enough, a /bin/sh that knows source, importable application modules, the
\* manifest present, the system directory of the service manager present, no
\* file in the place of a directory
SoundHost ==
    /\ ~VersionLess(host.version, MinVersion)
    /\ host.sh = "bash"
    /\ host.modules = "loadable"
    /\ Exists(fsStart, requirements_txt)
    /\ IsDir(fsStart, systemd_dir)
    /\ \A i \in 1..Len(directories) :
           Exists(fsStart, directories[i]) => IsDir(fsStart, directories[i])

NamedDirectories == {directories[i] : i \in 1..Len(directories)}

-----------------------------------------------------------------------------
(* C1: fail-fast.  When a required stage fails (returns False or raises),   *)
(* it is the last stage called in that run, the run has ended with status   *)
(* 1, and the last line printed is a failure line about that stage.         *)
C1_FailFast ==
    \A i \in 1..Len(executed) :
        (executed[i] \in RequiredStages /\ Failed(executed[i])) =>
            /\ i = Len(executed)
            /\ Terminated
            /\ exitCode = 1
            /\ out # <<>>
            /\ LastLine.stage = executed[i]
            /\ LastLine.kind \in {"fail", "abort", "traceback"}

\* a run stopped by setup_bluetooth returning False, after six stages succeeded
C1_Witness ==
    /\ Terminated
    /\ Len(executed) = 7
    /\ Called("setup_bluetooth") /\ results["setup_bluetooth"] = "False"
    /\ LastLine = Line("setup_bluetooth", "abort")

(* C2: optional-stage isolation.  On a sound host where no operation fails  *)
(* but the write of the service file, which create_service_file reports by  *)
(* returning False, the run calls setup_permissions and run_tests and ends  *)
(* with status 0.                                                           *)
C2_OptionalStageIsolation ==
    ( /\ Terminated
      /\ SoundHost
      /\ faulted = {}
      /\ Called("create_service_file") /\ results["create_service_file"] = "False" )
    => ( /\ Called("setup_permissions")
         /\ Called("run_tests")
         /\ exitCode = 0 )

(* C3: exit codes.  A run that has ended has status 0 or 1; the status is 0 *)
(* exactly when every required stage was called and returned True, and it   *)
(* is 1 whenever a required stage failed.  A run that has not ended has no  *)
(* status.                                                                  *)
C3_ExitCodes ==
    /\ Terminated => exitCode \in {0, 1}
    /\ Terminated => (exitCode = 0 <=> \A s \in RequiredStages : Succeeded(s))
    /\ Terminated => ((\E s \in RequiredStages : Failed(s)) => exitCode = 1)
    /\ ~Terminated => exitCode = Running

\* a run ended with status 1 by install_python_dependencies returning False
C3_Witness ==
    /\ Terminated
    /\ exitCode = 1
    /\ Called("install_python_dependencies")
    /\ results["install_python_dependencies"] = "False"

(* C4: idempotency.  Two runs in succession on a sound host where no        *)
(* operation fails both end with status 0, and the second does not run the  *)
(* command that creates the environment and removes no path.                *)
C4_Idempotency ==
    ( /\ Terminated
      /\ Len(history) = 1
      /\ SoundHost
      /\ history[1].faulted = {}
      /\ faulted = {} )
    => ( /\ history[1].exitCode = 0
         /\ exitCode = 0
         /\ \A i \in 1..Len(cmds) : cmds[i] # venv_command
         /\ DOMAIN fsStart \subseteq DOMAIN fs )

(* C5: safe re-run.  On a sound host, when a first run was aborted by an    *)
(* operation the host made fail and the second run meets no failing         *)
(* operation, the second run ends with status 0 and leaves a usable         *)
(* environment, the directories and the audio configuration.                *)
C5_SafeRerun ==
    ( /\ Terminated
      /\ Len(history) = 1
      /\ SoundHost
      /\ history[1].exitCode = 1
      /\ history[1].faulted # {}
      /\ history[1].last \in RequiredStages
      /\ faulted = {} )
    => ( /\ exitCode = 0
         /\ Exists(fs, venv_activate)
         /\ \A d \in NamedDirectories : IsDir(fs, d)
         /\ Exists(fs, pulse_config_path) )

\* the state right after create_directories returned to main()
AfterCreateDirectories ==
    /\ Len(executed) > 0
    /\ executed[Len(executed)] = "create_directories"

(* C6 as amended: when none of the six named directories nor web exists,    *)
(* create_directories creates exactly the six and web, the parent of        *)
(* web/static and web/templates; every path that existed keeps its kind,    *)
(* mode and content; and the stage fails only when the host rejects a mkdir *)
(* or a file stands in the place of a directory, never because a directory  *)
(* exists.                                                                  *)
C6_DirectoriesAdditive ==
    AfterCreateDirectories =>
        /\ \A p \in DOMAIN fsBefore : Exists(fs, p) /\ fs[p] = fsBefore[p]
        /\ ( Succeeded("create_directories")
             /\ DOMAIN fsBefore \cap (NamedDirectories \cup {"web"}) = {} )
           => DOMAIN fs \ DOMAIN fsBefore = NamedDirectories \cup {"web"}
        /\ Succeeded("create_directories") => \A d \in NamedDirectories : IsDir(fs, d)
        /\ Failed("create_directories")
           => \/ "mkdir" \in faulted
              \/ \E p \in NamedDirectories \cup {"web"} :
                     Exists(fsBefore, p) /\ ~IsDir(fsBefore, p)

\* create_directories returned True in a working directory that had none of
\* the directories: web exists beside the six, main.py is still there
C6_Witness ==
    /\ AfterCreateDirectories
    /\ Succeeded("create_directories")
    /\ DOMAIN fsBefore \cap (NamedDirectories \cup {"web"}) = {}
    /\ DOMAIN fs \ DOMAIN fsBefore = NamedDirectories \cup {"web"}
    /\ Exists(fsBefore, main_py) /\ Exists(fs, main_py)

(* C6 as stated: from a working directory without them, create_directories  *)
(* leaves exactly the six named directories as new paths.                   *)
C6_ExactlySix ==
    ( /\ AfterCreateDirectories
      /\ Succeeded("create_directories")
      /\ DOMAIN fsBefore \cap (NamedDirectories \cup {"web"}) = {} )
    => DOMAIN fs \ DOMAIN fsBefore = NamedDirectories

(* C7: verifier gating.  When the application modules cannot be imported    *)
(* and run_tests is called, it returns False, the run ends with status 1    *)
(* and the summary is not printed.                                          *)
C7_VerifierGating ==
    (host.modules = "broken" /\ Called("run_tests")) =>
        /\ results["run_tests"] = "False"
        /\ Terminated
        /\ exitCode = 1
        /\ ~SummaryPrinted
        /\ \A i \in 1..Len(executed) : executed[i] # "print_next_steps"

\* run_tests was reached with every required stage before it successful and
\* the modules broken
C7_Witness ==
    /\ host.modules = "broken"
    /\ Called("run_tests")
    /\ \A s \in RequiredStages \ {"run_tests"} : Succeeded(s)

(* C8: error propagation.  Every stage that is called returns its outcome   *)
(* to main(): none ends the process with an unhandled exception.            *)
C8_ErrorPropagation ==
    /\ raised = "none"
    /\ \A s \in DOMAIN results : results[s] # "raised"

(* C9: the summary is printed exactly when every required stage succeeded;  *)
(* when printed it follows run_tests and nothing follows it; it is never    *)
(* printed in a run that ends with a failure.                               *)
C9_NextSteps ==
    /\ SummaryPrinted <=> (Terminated /\ \A s \in RequiredStages : Succeeded(s))
    /\ SummaryPrinted =>
           /\ LastLine.kind = "summary"
           /\ Len(executed) >= 2
           /\ executed[Len(executed)] = "print_next_steps"
           /\ executed[Len(executed) - 1] = "run_tests"
    /\ (Terminated /\ exitCode # 0) => ~SummaryPrinted

\* a run ended by run_tests returning False, without the summary
C9_Witness ==
    /\ Terminated
    /\ exitCode = 1
    /\ Called("run_tests") /\ results["run_tests"] = "False"
    /\ ~SummaryPrinted

(* C10: progress trail.  Every stage that was called and returned printed a *)
(* line before its work and, after it, a success, failure or warning line.  *)
C10_ProgressTrail ==
    \A s \in DOMAIN results :
        results[s] # "raised" =>
            \E i, j \in 1..Len(out) :
                /\ i < j
                /\ out[i].stage = s /\ out[i].kind \in {"header", "start"}
                /\ out[j].stage = s /\ out[j].kind \in {"ok", "fail", "warn"}

\* the stage main() called last in this run
LastCalled == IF executed = <<>> THEN "none" ELSE executed[Len(executed)]

\* the lines a stage printed in this run
LinesOf(stage) ==
    LET IsOf(l) == l.stage = stage IN SelectSeq(out, IsOf)

IsPrefix(a, b) == Len(a) <= Len(b) /\ \A i \in 1..Len(a) : a[i] = b[i]

\* the order of the stages as the design gives it
DesignOrder ==
    <<"check_python_version", "install_system_dependencies", "create_virtual_environment",
      "install_python_dependencies", "create_directories", "setup_configuration",
      "setup_bluetooth", "setup_audio", "create_service_file", "setup_permissions",
      "run_tests", "print_next_steps">>

(* C11: fixed total order.  The stages called in a run are the first ones   *)
(* of the design's order, each once; every stage but the last called has    *)
(* returned; the stage to be called next is the one that follows; no        *)
(* command is run twice in a run.                                           *)
C11_FixedOrder ==
    /\ IsPrefix(executed, DesignOrder)
    /\ \A i \in 1..(Len(executed) - 1) :
           Called(executed[i]) /\ results[executed[i]] \in {"True", "False"}
    /\ pc \in Stages => pc = DesignOrder[Len(executed) + 1]
    /\ \A i, j \in 1..Len(cmds) : i # j => cmds[i] # cmds[j]

\* a run that called every stage up to run_tests and ran all eighteen commands
C11_Witness ==
    /\ Terminated
    /\ LastCalled = "run_tests"
    /\ Len(executed) = 11
    /\ Len(cmds) = 18

(* C12: Runtime Isolator.  When venv exists, create_virtual_environment     *)
(* returns True, runs no command and leaves the filesystem as it was; when  *)
(* venv does not exist it runs the creation command once, and returns False *)
(* exactly when the host made that command exit non-zero.                   *)
C12_RuntimeIsolator ==
    LastCalled = "create_virtual_environment" =>
        LET ran == {i \in 1..Len(cmds) : cmds[i] = venv_command} IN
        /\ Exists(fsBefore, venv_path) =>
               /\ Succeeded("create_virtual_environment")
               /\ ran = {}
               /\ fs = fsBefore
        /\ ~Exists(fsBefore, venv_path) =>
               /\ Cardinality(ran) = 1
               /\ results["create_virtual_environment"] \in {"True", "False"}
               /\ Failed("create_virtual_environment") <=> "venv" \in faulted

\* the second run finds the environment of the first one
C12_Witness ==
    /\ LastCalled = "create_virtual_environment"
    /\ Len(history) = 1
    /\ Exists(fsBefore, venv_path)
    /\ Succeeded("create_virtual_environment")

\* the commands of the Dependency Installer in the order the design gives
DesignAptOrder ==
    [i \in 1..(Len(packages) + 1) |->
        IF i = 1 THEN <<"sudo apt update">> ELSE <<"sudo apt install -y", packages[i - 1]>>]

(* C13: Dependency Installer.  The commands run are the package-list update *)
(* and then the installs in list order, in every run, also when an earlier  *)
(* run installed the packages; the stage returns True exactly when all of   *)
(* them ran and none failed, and after a failing command no further command *)
(* is run: the failing command is the last one and the only one with a      *)
(* failure line.                                                            *)
C13_DependencyInstaller ==
    LastCalled = "install_system_dependencies" =>
        LET lines == LinesOf("install_system_dependencies")
            fails == {i \in 1..Len(lines) : lines[i].kind = "fail"}
            starts == {i \in 1..Len(lines) : lines[i].kind = "start"}
        IN /\ IsPrefix(cmds, DesignAptOrder)
           /\ cmds # <<>>
           /\ Cardinality(starts) = Len(cmds)
           /\ Succeeded("install_system_dependencies") <=>
                  (cmds = DesignAptOrder /\ fails = {})
           /\ Failed("install_system_dependencies") =>
                  /\ results["install_system_dependencies"] = "False"
                  /\ Cardinality(fails) = 1
                  /\ \A i \in fails : \A j \in starts : j < i
                  /\ "apt" \in faulted

\* the install of the third package failed: four commands were run, no more
C13_Witness ==
    /\ LastCalled = "install_system_dependencies"
    /\ Failed("install_system_dependencies")
    /\ Len(cmds) = 4
    /\ cmds[4] = <<"sudo apt install -y", "ffmpeg">>

(* C14: Package Installer.  install_python_dependencies runs the upgrade of *)
(* pip in every run, also when the environment existed at the start; it     *)
(* returns False when requirements.txt is missing and when the host makes   *)
(* an installation fail; the requirements are installed only after the      *)
(* upgrade succeeded.                                                       *)
C14_PackageInstaller ==
    LastCalled = "install_python_dependencies" =>
        LET lines == LinesOf("install_python_dependencies")
            ran(c) == \E i \in 1..Len(cmds) : cmds[i] = c
        IN /\ ran(pip_upgrade)
           /\ ~Exists(fsBefore, requirements_txt) => Failed("install_python_dependencies")
           /\ "pip" \in faulted => Failed("install_python_dependencies")
           /\ results["install_python_dependencies"] \in {"True", "False"}
           /\ ran(pip_requirements) => (Len(lines) >= 3 /\ lines[3].kind = "ok")
           /\ Succeeded("install_python_dependencies") => ran(pip_requirements)
           /\ fs = fsBefore

\* the second run installs again into the environment the first run created
C14_Witness ==
    /\ LastCalled = "install_python_dependencies"
    /\ Len(history) = 1
    /\ Exists(fsStart, venv_activate)
    /\ Succeeded("install_python_dependencies")
    /\ Len(cmds) = 14

(* C15: Config Seeder.  setup_configuration returns True whether or not    *)
(* the configuration files exist and leaves the filesystem exactly as it    *)
(* was: no file is created, written or changed.                             *)
C15_ConfigSeeder ==
    LastCalled = "setup_configuration" =>
        /\ Succeeded("setup_configuration")
        /\ fs = fsBefore
        /\ \A i \in 1..Len(out) :
               out[i].stage = "setup_configuration" => out[i].kind \in {"header", "info"}

\* setup_configuration returned True with both files missing, and they still are
C15_Witness ==
    /\ LastCalled = "setup_configuration"
    /\ Succeeded("setup_configuration")
    /\ ~Exists(fsBefore, settings_file) /\ ~Exists(fs, settings_file)
    /\ ~Exists(fsBefore, credentials_file) /\ ~Exists(fs, credentials_file)

C17_NoDeletion ==
    LET Kept(f) == \A p \in DOMAIN f : Exists(fs, p) /\ fs[p].kind = f[p].kind IN
    /\ Kept(fsBefore)
    /\ Kept(fsStart)
    /\ \A i \in 1..Len(history) : Kept(history[i].fsStart)

\* a run aborted by an exception after it had created paths, in a second run
C17_Witness ==
    /\ Terminated
    /\ raised # "none"
    /\ Len(history) = 1
    /\ DOMAIN fs # DOMAIN history[1].fsStart
    /\ DOMAIN fs # DOMAIN fsStart

\* the runtime is older than 3.8
TooOld == host.version[1] < 3 \/ (host.version[1] = 3 /\ host.version[2] < 8)

(* C18: Preflight.  check_python_version returns False exactly when the     *)
(* runtime is older than 3.8; the run then ends with status 1 with no other *)
(* stage called and no command run.  With effective user id 0 main() prints *)
(* one warning line and goes on to check_python_version like any other run. *)
C18_Preflight ==
    /\ Called("check_python_version") =>
           /\ results["check_python_version"] \in {"True", "False"}
           /\ Failed("check_python_version") <=> TooOld
    /\ Failed("check_python_version") =>
           /\ Terminated /\ exitCode = 1
           /\ Len(executed) = 1
           /\ cmds = <<>>
    /\ TooOld => cmds = <<>>
    /\ pc # "main" =>
           /\ Len(LinesOf("main")) = (IF host.euid = 0 THEN 3 ELSE 2)
           /\ \A i \in 1..Len(out) : out[i].kind = "warn" /\ out[i].stage = "main" => i = 3
           /\ Called("check_python_version") \/ pc = "check_python_version"

\* root on a runtime that is too old: the warning, then the abort at Preflight
C18_Witness ==
    /\ host.euid = 0
    /\ TooOld
    /\ Terminated
    /\ exitCode = 1
    /\ out[3] = Line("main", "warn")

\* the module-load directives of a configuration file: its lines but the empty ones
Directives(content) ==
    LET NotEmpty(l) == l # "" IN SelectSeq(content, NotEmpty)

(* C20: audio configuration.  Once setup_audio has returned True in a run,  *)
(* the directives of the audio-server configuration file are the two        *)
(* module-load lines, each once, whatever the file held before and however  *)
(* many runs came before.                                                   *)
C20_AudioConfiguration ==
    Succeeded("setup_audio") =>
        /\ Exists(fs, pulse_config_path)
        /\ Directives(fs[pulse_config_path].content)
               = <<"load-module module-bluetooth-discover",
                   "load-module module-bluetooth-policy">>

\* the second run wrote the file the first run had written over another content
C20_Witness ==
    /\ Succeeded("setup_audio")
    /\ Len(history) = 1
    /\ Exists(history[1].fsStart, pulse_config_path)
    /\ Exists(fsStart, pulse_config_path)
    /\ Directives(fsStart[pulse_config_path].content)
           # Directives(history[1].fsStart[pulse_config_path].content)

(* C19: termination.  When every child process returns, a run that has     *)
(* started ends: it reaches exit with status 0 or 1, after at most one call *)
(* of each stage.                                                           *)
C19_Termination ==
    /\ (~Terminated) ~> Terminated
    /\ [](Terminated => exitCode \in {0, 1})
    /\ [](Len(executed) <= Len(DesignOrder))

\* a second run has ended after calling every stage up to run_tests
C19_Witness ==
    /\ Terminated
    /\ Len(history) = 1
    /\ LastCalled = "run_tests"
    /\ exitCode = 1

====
